---- MODULE Spec2Model ----
(***************************************************************************)
(* One-time login code lifecycle of InventoryAI (users app):               *)
(* request_code (RequestLoginCodeView.post), verify_code                   *)
(* (VerifyLoginCodeView.post), the LoginCode model and the                 *)
(* cleanup_logincodes command.                                             *)
(*                                                                         *)
(* Time is a tick counter.  Several requests may happen inside one tick;   *)
(* the order in which records were created inside a tick is kept by the    *)
(* record id, which grows with every insert (created_at has microsecond    *)
(* resolution in the program, so "newest" is the last one inserted).       *)
(***************************************************************************)
EXTENDS Integers, Sequences, FiniteSets, TLC

\* ---------------------------------------------------------------- bounds
\* settings.LOGIN_CODE_EXPIRE_MINUTES (src/users/views.py:165), in ticks
LOGIN_CODE_EXPIRE_MINUTES == 2
\* settings.LOGIN_CODE_LOCK_MINUTES (src/users/models.py:76), in ticks
LOGIN_CODE_LOCK_MINUTES == 2
\* settings.LOGIN_CODE_MAX_ATTEMPTS (src/users/models.py:65)
LOGIN_CODE_MAX_ATTEMPTS == 2
\* settings.LOGIN_CODE_CLEANUP_DAYS (cleanup_logincodes.py:18), in ticks
LOGIN_CODE_CLEANUP_DAYS == 2
\* the clock stops here
MaxTime == 3
\* number of LoginCode rows ever inserted
MaxCodes == 2
\* attempts counter is not pushed beyond this
MaxAttemptsCount == 3
\* verify_code requests each worker serves
MaxRequests == 1

\* ----------------------------------------------------------- input domains
\* e-mail addresses are character sequences
NewLower == <<"n", "@", "x">>
NewUpper == <<"N", "@", "x">>
BobLower == <<"b", "@", "y">>
BobMixed == <<"B", "@", "y">>
RawEmails == {NewLower, NewUpper, BobLower}
CodeValues == {"111111", "222222"}
Procs == {1, 2}

NULL == -1
NoUser == 0

\* ------------------------------------------------------------ conversions
\* str.lower() on one character
LowerChar(c) ==
  CASE c = "N" -> "n"
    [] c = "B" -> "b"
    [] OTHER -> c

\* str.lower()
Lower(s) == [i \in DOMAIN s |-> LowerChar(s[i])]

\* the email__iexact lookup
IExact(a, b) == Lower(a) = Lower(b)

\* email.split("@")[0]
LocalPart(s) ==
  LET ats == {i \in DOMAIN s : s[i] = "@"}
      first == IF ats = {} THEN Len(s) + 1
               ELSE CHOOSE i \in ats : \A j \in ats : i <= j
  IN SubSeq(s, 1, first - 1)

\* ------------------------------------------------------------------ state
VARIABLES
  now,        \* timezone.now()
  codes,      \* committed LoginCode rows
  users,      \* committed User rows
  nextCid,    \* next LoginCode id (creation order)
  nextUid,    \* next User id
  resp,       \* response of the last request served outside a worker
  accepted,   \* history: how often each LoginCode id was accepted
  penalties,  \* history: committed register_attempt calls per LoginCode id
  streak,     \* history: wrong-code verifies in a row since the last issue
  pc,         \* worker position inside VerifyLoginCodeView.post
  req,        \* worker's request body
  obj,        \* worker's code_obj / latest instance
  usr,        \* worker's user instance id
  txCodes,    \* worker's uncommitted LoginCode row versions
  txUsers,    \* worker's uncommitted User rows
  served,     \* requests the worker has taken so far
  presp,      \* worker's response
  cache,      \* throttle cache: requests recorded under each key
  hits,       \* history: the requests the throttle has counted
  perm,       \* last permission decision of IsAdminOrStaffWrite
  outbox,     \* history: what was handed to send_login_code_email
  quantity,   \* Product.quantity as stored
  stockLogs,  \* StockLog rows in creation order
  notifs,     \* Notification rows
  receivers,  \* receivers connected to post_save of Product
  spc,        \* worker position inside ProductViewSet.adjust_stock
  sinst,      \* worker's product instance: its quantity
  schange,    \* worker's change_amount
  scall,      \* worker's adjust_stock call number
  sresp,      \* worker's adjust_stock response status
  nextCall,   \* next adjust_stock call number
  oAttempt,   \* ollama_generate: the loop variable attempt
  oLog,       \* ollama_generate: how each HTTP attempt of the call ended
  oResult,    \* ollama_generate: what the call gave its caller
  oSlept      \* ollama_generate: time.sleep calls of the call

dbVars == <<codes, users, nextCid, nextUid>>
histVars == <<accepted, penalties, streak>>
procVars == <<pc, req, obj, usr, txCodes, txUsers, served, presp>>
guardVars == <<cache, hits, perm>>
mailVars == <<outbox>>
stockVars == <<quantity, stockLogs, notifs, receivers, spc, sinst, schange,
               scall, sresp, nextCall>>
aiVars == <<oAttempt, oLog, oResult, oSlept>>
vars == <<now, codes, users, nextCid, nextUid, resp,
          accepted, penalties, streak,
          pc, req, obj, usr, txCodes, txUsers, served, presp,
          cache, hits, perm,
          outbox,
          quantity, stockLogs, notifs, receivers, spc, sinst, schange,
          scall, sresp, nextCall,
          oAttempt, oLog, oResult, oSlept>>

NoCode == [id |-> 0, email |-> <<>>, user |-> NoUser, code |-> "",
           created_at |-> 0, expires_at |-> 0, used |-> FALSE,
           attempts |-> 0, max_attempts |-> 0, locked_until |-> NULL]

NoResp == [op |-> "none", status |-> 0, reason |-> "none", user |-> NoUser,
           tokens |-> NoUser, target |-> 0, delivery |-> "none"]

Bob == [id |-> 1, email |-> BobMixed, username |-> <<"b">>, role |-> "admin",
        is_active |-> TRUE, is_superuser |-> FALSE]

\* --------------------------------------------------------- LoginCode model
\* is_valid without the used test
IsValidIgnoresUsed(r, t) ==
  IF r.expires_at < t THEN FALSE
  ELSE IF r.locked_until # NULL /\ r.locked_until > t THEN FALSE
  ELSE TRUE

\* LoginCode.is_valid
IsValid(r, t) ==
  IF r.used THEN FALSE
  ELSE IF r.expires_at < t THEN FALSE
  ELSE IF r.locked_until # NULL /\ r.locked_until > t THEN FALSE
  ELSE TRUE

\* max_attempts or settings.LOGIN_CODE_MAX_ATTEMPTS
OrDefault(m) == IF m # 0 THEN m ELSE LOGIN_CODE_MAX_ATTEMPTS

\* create_code that drops the account it was given
CreateCodeUnlinked(id, email, user, code, t) ==
  [id |-> id, email |-> email, user |-> NoUser, code |-> code,
   created_at |-> t, expires_at |-> t + LOGIN_CODE_EXPIRE_MINUTES,
   used |-> FALSE, attempts |-> 0,
   max_attempts |-> OrDefault(0), locked_until |-> NULL]

\* LoginCode.create_code: the row that is inserted
CreateCode(id, email, user, code, t) ==
  [id |-> id, email |-> email, user |-> user, code |-> code,
   created_at |-> t, expires_at |-> t + LOGIN_CODE_EXPIRE_MINUTES,
   used |-> FALSE, attempts |-> 0,
   max_attempts |-> OrDefault(0), locked_until |-> NULL]

\* register_attempt locking one attempt late (> instead of >=)
RegisterAttemptLateLock(r, t) ==
  LET a == r.attempts + 1
  IN [r EXCEPT !.attempts = a,
               !.locked_until = IF a > OrDefault(r.max_attempts)
                                THEN t + LOGIN_CODE_LOCK_MINUTES
                                ELSE @]

\* LoginCode.register_attempt: the instance after the call
RegisterAttempt(r, t) ==
  LET a == r.attempts + 1
  IN [r EXCEPT !.attempts = a,
               !.locked_until = IF a >= OrDefault(r.max_attempts)
                                THEN t + LOGIN_CODE_LOCK_MINUTES
                                ELSE @]

\* .order_by("-created_at").first()
NewestOf(S) ==
  IF S = {} THEN NoCode
  ELSE CHOOSE r \in S : \A q \in S : q.id <= r.id

\* LoginCode.objects.filter(email__iexact=email, code=code)
MatchingCodes(cs, email, code) ==
  {r \in cs : IExact(r.email, email) /\ r.code = code}

\* a lookup of the latest record that forgets the e-mail filter
CodesForAnyEmail(cs, email) == cs

\* LoginCode.objects.filter(email__iexact=email)
CodesForEmail(cs, email) == {r \in cs : IExact(r.email, email)}

\* User.objects.filter(email__iexact=email)
UsersForEmail(us, email) == {u \in us : IExact(u.email, email)}

\* .first() on the user query: the id of a matching user if any
FirstUser(us, email) ==
  IF UsersForEmail(us, email) = {} THEN NoUser
  ELSE (CHOOSE u \in UsersForEmail(us, email) :
          \A v \in UsersForEmail(us, email) : u.id <= v.id).id

\* a user created with the whole address as username
NewUserFullAddress(id, email) ==
  [id |-> id, email |-> email, username |-> email,
   role |-> "staff", is_active |-> TRUE, is_superuser |-> FALSE]

\* User.objects.create(username=..., email=..., is_active=True, role=...)
NewUser(id, email) ==
  [id |-> id, email |-> email, username |-> LocalPart(email),
   role |-> "staff", is_active |-> TRUE, is_superuser |-> FALSE]

\* save(update_fields=[...]) on a table
ReplaceRow(cs, r) == {q \in cs : q.id # r.id} \cup {r}

\* --------------------------------------------------------- request guards
\* what request.data carries as "email" when the throttle reads it: the
\* serializer has not run yet, so the value is whatever the client sent
PaddedNew == <<" ", "n", "@", "x">>
IpLike == <<"i", "p", "_", "1">>
ThrottleEmails == {NewLower, NewUpper, PaddedNew, IpLike, <<>>}

\* request bodies: a mapping with an "email" entry, or a body whose "email"
\* cannot be read and lowered (request.data.get(...).lower() raises)
ThrottleData ==
  {[readable |-> TRUE, email |-> e] : e \in ThrottleEmails}
    \cup {[readable |-> FALSE, email |-> <<>>]}

\* get_ident(request): the client address
Idents == {<<"1">>, <<"2">>}

\* str.strip()
Strip(s) ==
  LET solid == {i \in DOMAIN s : s[i] # " "}
  IN IF solid = {} THEN <<>>
     ELSE SubSeq(s, CHOOSE i \in solid : \A j \in solid : i <= j,
                    CHOOSE i \in solid : \A j \in solid : j <= i)

\* the literal "throttle_request_code_" that starts every key
KeyPrefix == <<"throttle_request_code_">>

\* RequestCodeThrottle.get_cache_key
GetCacheKey(ident, data) ==
  LET email == IF data.readable THEN Strip(Lower(data.email)) ELSE <<>>
  IN IF email # <<>> THEN KeyPrefix \o email
     ELSE KeyPrefix \o <<"i", "p", "_">> \o ident

ThrottleKeys == {GetCacheKey(i, d) : i \in Idents, d \in ThrottleData}

\* requests the throttle lets through under one key (the request_code rate)
RequestCodeRate == 2

\* permissions.SAFE_METHODS
SAFE_METHODS == {"GET", "HEAD", "OPTIONS"}

Methods == SAFE_METHODS \cup {"POST", "PUT", "PATCH", "DELETE"}

\* request.user: AnonymousUser, or a User with a role and is_superuser
Anonymous == [is_authenticated |-> FALSE, role |-> "", is_superuser |-> FALSE]

Callers ==
  {Anonymous} \cup
  [is_authenticated : {TRUE}, role : {"admin", "staff", "viewer"},
   is_superuser : BOOLEAN]

\* has_permission without the superuser clause for DELETE
HasPermissionRoleOnly(method, user) ==
  IF method \in SAFE_METHODS THEN TRUE
  ELSE IF method = "DELETE"
  THEN user.is_authenticated /\ user.role = "admin"
  ELSE user.is_authenticated /\ user.role \in {"admin", "staff"}

\* IsAdminOrStaffWrite.has_permission
HasPermission(method, user) ==
  IF method \in SAFE_METHODS THEN TRUE
  ELSE IF method = "DELETE"
  THEN user.is_authenticated /\ (user.role = "admin" \/ user.is_superuser)
  ELSE user.is_authenticated /\ user.role \in {"admin", "staff"}

\* IsAdminOrStaffWrite.has_object_permission
HasObjectPermission(method, user) == HasPermission(method, user)

NoPerm == [method |-> "none", user |-> Anonymous, granted |-> FALSE,
           object_granted |-> FALSE]

\* ------------------------------------------------------- inventory stock
\* Product.quantity of the one product when the run starts
InitialQuantity == 2

\* Product.low_stock_threshold of the product
LowStockThreshold == 1

\* adjust_stock calls made in one run
MaxAdjusts == 2

\* request.data["change_amount"] as the client sent it
ChangeAmounts == {"-1", "1", "x"}

\* int(...) on the value: the integer, or the ValueError
ParseInt(raw) ==
  CASE raw = "-1" -> [ok |-> TRUE, value |-> -1]
    [] raw = "1" -> [ok |-> TRUE, value |-> 1]
    [] OTHER -> [ok |-> FALSE, value |-> 0]

\* the rows create_notification inserts for one low-stock event: one row for
\* each recipient in id order, then the broadcast row with no user
LowStockRows(ns, call, recipients, by) ==
  {[id |-> Cardinality(ns) + Cardinality({v \in recipients : v <= u}),
    user |-> u, type |-> "low_stock", call |-> call, by |-> by]
     : u \in recipients}
  \cup {[id |-> Cardinality(ns) + Cardinality(recipients) + 1,
         user |-> NoUser, type |-> "low_stock", call |-> call, by |-> by]}

\* User.objects.filter(role="admin")
AdminsByRole(us) == {u.id : u \in {v \in us : v.role = "admin"}}

\* User.objects.filter(Q(role="admin") | Q(is_superuser=True))
AdminsOrSuperusers(us) ==
  {u.id : u \in {v \in us : v.role = "admin" \/ v.is_superuser}}

\* product_post_save for an updated product: the rows it adds
ProductPostSave(ns, call, qty, us) ==
  IF qty <= LowStockThreshold
  THEN ns \cup LowStockRows(ns, call, AdminsByRole(us), "signal")
  ELSE ns

\* ------------------------------------------------------------ ollama client
\* settings.OLLAMA_MAX_RETRIES, default
OLLAMA_MAX_RETRIES == 3

\* ollama_generate has not given anything to its caller
NoResult == [kind |-> "none", value |-> ""]

\* how one HTTP attempt can end: a body with a "response" entry, a body
\* without one, or an exception from requests.post, raise_for_status or
\* res.json
OllamaSuccesses == {"response", "no_response_field"}

OllamaFailures == {"timeout", "connection_error", "http_error", "bad_json"}

\* the test before the re-raise, off by one
LastAttemptOffByOne(attempt) == attempt = OLLAMA_MAX_RETRIES + 1

\* line 90: if attempt == OLLAMA_MAX_RETRIES
LastAttempt(attempt) == attempt = OLLAMA_MAX_RETRIES

\* ------------------------------------------------------------------- Init
Init ==
  /\ now = 0
  /\ codes = {}
  /\ users = {Bob}
  /\ nextCid = 1
  /\ nextUid = 2
  /\ resp = NoResp
  /\ accepted = [i \in 1..MaxCodes |-> 0]
  /\ penalties = [i \in 1..MaxCodes |-> 0]
  /\ streak = [e \in {Lower(m) : m \in RawEmails} |->
                 [n |-> NULL, at |-> NULL]]
  /\ pc = [p \in Procs |-> "idle"]
  /\ req = [p \in Procs |-> [email |-> <<>>, code |-> ""]]
  /\ obj = [p \in Procs |-> NoCode]
  /\ usr = [p \in Procs |-> NoUser]
  /\ txCodes = [p \in Procs |-> {}]
  /\ txUsers = [p \in Procs |-> {}]
  /\ served = [p \in Procs |-> 0]
  /\ presp = [p \in Procs |-> NoResp]
  /\ cache = [k \in ThrottleKeys |-> 0]
  /\ hits = {}
  /\ perm = NoPerm
  /\ outbox = {}
  /\ quantity = InitialQuantity
  /\ stockLogs = <<>>
  /\ notifs = {}
  /\ receivers = {}
  /\ spc = [p \in Procs |-> "idle"]
  /\ sinst = [p \in Procs |-> 0]
  /\ schange = [p \in Procs |-> 0]
  /\ scall = [p \in Procs |-> 0]
  /\ sresp = [p \in Procs |-> 0]
  /\ nextCall = 1
  /\ oAttempt = 0
  /\ oLog = <<>>
  /\ oResult = NoResult
  /\ oSlept = <<>>

\* the clock advances
Tick ==
  /\ now < MaxTime
  /\ now' = now + 1
  /\ UNCHANGED <<dbVars, resp, histVars, procVars>>
  /\ UNCHANGED <<guardVars, mailVars, stockVars, aiVars>>

\* -------------------------------------------------------- request_code
\* send_login_code_email: what the call gives back to the view.  The mail
\* is sent by a daemon thread whose result nobody reads; an error while
\* starting the thread is caught and turned into False.
SendLoginCodeEmail(delivery) ==
  CASE delivery = "delivered" -> "True"
    [] delivery = "smtp_error" -> "True"
    [] delivery = "thread_error" -> "False"

Deliveries == {"delivered", "smtp_error", "thread_error"}

\* history: a new issue for the e-mail starts a new run of wrong guesses
StreakReset(email) == [streak EXCEPT ![email] = [n |-> 0, at |-> NULL]]

\* RequestLoginCodeView.post
RequestCode(rawEmail, code, createOk, delivery) ==
  LET email == Lower(rawEmail)
      user == FirstUser(users, email)
      code_obj == CreateCode(nextCid, email, user, code, now)
      sent == SendLoginCodeEmail(delivery)
      base == [NoResp EXCEPT !.op = "request_code"]
  IN
  /\ nextCid <= MaxCodes
  /\ IF ~createOk
     THEN /\ resp' = [base EXCEPT !.status = 500, !.reason = "create_failed"]
          /\ UNCHANGED <<codes, nextCid, streak>>
     ELSE /\ nextCid' = nextCid + 1
          /\ streak' = StreakReset(email)
          /\ IF sent = "raised"
             THEN /\ codes' = codes
                  /\ resp' = [base EXCEPT !.status = 500,
                                          !.reason = "send_failed",
                                          !.target = code_obj.id,
                                          !.delivery = delivery]
             ELSE /\ codes' = codes \cup {code_obj}
                  /\ resp' = [base EXCEPT !.status = 200,
                                          !.reason = "code_sent",
                                          !.target = code_obj.id,
                                          !.delivery = delivery]
  /\ UNCHANGED <<now, users, nextUid, accepted, penalties, procVars>>
  /\ UNCHANGED <<guardVars, mailVars, stockVars, aiVars>>

\* --------------------------------------------------------- verify_code
VerifyBase == [NoResp EXCEPT !.op = "verify_code"]

\* the 400 response
Invalid400(reason, target) ==
  [VerifyBase EXCEPT !.status = 400, !.reason = reason, !.target = target]

\* the 429 response
Locked429(target) ==
  [VerifyBase EXCEPT !.status = 429, !.reason = "locked", !.target = target]

\* the 200 response with user and tokens
Accepted200(user, target) ==
  [VerifyBase EXCEPT !.status = 200, !.reason = "accepted", !.user = user,
                     !.tokens = user, !.target = target]

\* the used flag is not stored
MarkUsedRowSkipped(r) == r

\* code_obj.used = True; code_obj.save(update_fields=["used"])
MarkUsedRow(r) == [r EXCEPT !.used = TRUE]

\* code_obj.user = user; code_obj.save(update_fields=["user"])
AttachUser(r, uid) == [r EXCEPT !.user = uid]

\* no lockout check before is_valid()
LockedNowNever(r, t) == FALSE

\* a lockout check that is made for unused records only
LockedNowUnusedOnly(r, t) ==
  r.locked_until # NULL /\ r.locked_until > t /\ ~r.used

\* a lockout check that does not compare with the clock
LockedNowAnyLock(r, t) == r.locked_until # NULL

\* the lockout check of the view
LockedNow(r, t) == r.locked_until # NULL /\ r.locked_until > t

\* history: one more wrong guess that penalised the latest record of the
\* e-mail, unless the run was broken
StreakWrong(email) ==
  [streak EXCEPT ![email] = IF @.n = NULL THEN @
                            ELSE [n |-> @.n + 1, at |-> now]]

\* history: an accepted verify ends the run
StreakBroken(email) == [streak EXCEPT ![email] = [n |-> NULL, at |-> NULL]]

\* VerifyLoginCodeView.post, served alone
Verify(rawEmail, rawCode) ==
  LET email == Lower(rawEmail)
      code == rawCode
      code_obj == NewestOf(MatchingCodes(codes, email, code))
      latest == NewestOf(CodesForEmail(codes, email))
      found == FirstUser(users, email)
      uid == IF found = NoUser THEN nextUid ELSE found
      marked == MarkUsedRow(code_obj)
      linked == IF marked.user = NoUser
                THEN AttachUser(marked, uid) ELSE marked
  IN
  /\ IF code_obj.id = 0
     THEN /\ IF latest.id # 0
             THEN /\ latest.attempts < MaxAttemptsCount
                  /\ codes' = ReplaceRow(codes, RegisterAttempt(latest, now))
                  /\ penalties' = [penalties EXCEPT ![latest.id] = @ + 1]
                  /\ streak' = StreakWrong(email)
             ELSE UNCHANGED <<codes, penalties, streak>>
          /\ resp' = Invalid400("no_match", latest.id)
          /\ UNCHANGED <<users, nextUid, accepted>>
     ELSE IF LockedNow(code_obj, now)
     THEN /\ resp' = Locked429(code_obj.id)
          /\ UNCHANGED <<codes, users, nextUid, histVars>>
     ELSE IF ~IsValid(code_obj, now)
     THEN /\ resp' = Invalid400("expired_or_used", code_obj.id)
          /\ UNCHANGED <<codes, users, nextUid, histVars>>
     ELSE /\ codes' = ReplaceRow(codes, linked)
          /\ IF found = NoUser
             THEN /\ users' = users \cup {NewUser(nextUid, email)}
                  /\ nextUid' = nextUid + 1
             ELSE UNCHANGED <<users, nextUid>>
          /\ accepted' = [accepted EXCEPT ![code_obj.id] = @ + 1]
          /\ streak' = StreakBroken(email)
          /\ resp' = Accepted200(uid, code_obj.id)
          /\ UNCHANGED penalties
  /\ UNCHANGED <<now, nextCid, procVars>>
  /\ UNCHANGED <<guardVars, mailVars, stockVars, aiVars>>

\* VerifyLoginCodeView.post when no record matches and the save inside
\* latest.register_attempt() raises a storage error: the view catches the
\* exception, logs it and answers as for any wrong code; nothing is stored
VerifyAttemptSaveFails(rawEmail, rawCode) ==
  LET email == Lower(rawEmail)
      code == rawCode
      code_obj == NewestOf(MatchingCodes(codes, email, code))
      latest == NewestOf(CodesForEmail(codes, email))
  IN
  /\ code_obj.id = 0
  /\ latest.id # 0
  /\ resp' = Invalid400("no_match", latest.id)
  /\ UNCHANGED <<now, dbVars, histVars, procVars>>
  /\ UNCHANGED <<guardVars, mailVars, stockVars, aiVars>>

\* ------------------------------------------------------------- cleanup
\* a sweep that keeps used records until they are old
CleanupAgedOnly ==
  LET older_than == now - LOGIN_CODE_CLEANUP_DAYS
      qs == {r \in codes : r.created_at < older_than}
  IN
  /\ codes' = codes \ qs
  /\ UNCHANGED <<now, users, nextCid, nextUid, resp, histVars, procVars>>
  /\ UNCHANGED <<guardVars, mailVars, stockVars, aiVars>>

\* cleanup_logincodes Command.handle
Cleanup ==
  LET older_than == now - LOGIN_CODE_CLEANUP_DAYS
      qs == {r \in codes : r.used \/ r.created_at < older_than}
  IN
  /\ codes' = codes \ qs
  /\ UNCHANGED <<now, users, nextCid, nextUid, resp, histVars, procVars>>
  /\ UNCHANGED <<guardVars, mailVars, stockVars, aiVars>>

\* the records cleanup_logincodes leaves stored when it runs at time t
CleanupKept(cs, t) ==
  {r \in cs : ~(r.used \/ r.created_at < t - LOGIN_CODE_CLEANUP_DAYS)}

\* VerifyLoginCodeView.post as a function of the stored records: the reason
\* of its response and the records it leaves stored (uid is the account the
\* view links an accepted record to when the record has none)
VerifyOutcome(cs, rawEmail, rawCode, uid, t) ==
  LET email == Lower(rawEmail)
      code_obj == NewestOf(MatchingCodes(cs, email, rawCode))
      latest == NewestOf(CodesForEmail(cs, email))
      marked == MarkUsedRow(code_obj)
      linked == IF marked.user = NoUser
                THEN AttachUser(marked, uid) ELSE marked
  IN IF code_obj.id = 0
     THEN [reason |-> "no_match",
           codes |-> IF latest.id # 0
                     THEN ReplaceRow(cs, RegisterAttempt(latest, t))
                     ELSE cs]
     ELSE IF LockedNow(code_obj, t)
     THEN [reason |-> "locked", codes |-> cs]
     ELSE IF ~IsValid(code_obj, t)
     THEN [reason |-> "expired_or_used", codes |-> cs]
     ELSE [reason |-> "accepted", codes |-> ReplaceRow(cs, linked)]

\* ---------------------------------------------- requests served one by one
Next ==
  \/ Tick
  \/ \E e \in RawEmails, c \in CodeValues, ok \in BOOLEAN, d \in Deliveries :
       RequestCode(e, c, ok, d)
  \/ \E e \in RawEmails, c \in CodeValues : Verify(e, c)
  \/ \E e \in RawEmails, c \in CodeValues : VerifyAttemptSaveFails(e, c)
  \/ Cleanup

Spec == Init /\ [][Next]_vars

\* --------------------------------------- verify_code served by two workers
\* VerifyLoginCodeView.post runs inside transaction.atomic: its writes stay
\* in the worker's transaction until the view returns, a row written by one
\* open transaction cannot be written by another one before the first ends,
\* and plain reads (no select_for_update) see the committed rows.

\* a commit makes the transaction's row versions the stored ones
ApplyTx(table, pending) ==
  {q \in table : \A w \in pending : w.id # q.id} \cup pending

\* writes that stay stored although the request failed (no transaction)
AfterRollbackKeepsWrites(table, pending) == ApplyTx(table, pending)

\* an exception leaving transaction.atomic rolls the writes back
AfterRollback(table, pending) == table

\* another open transaction has written the row
RowLockedByOther(p, id) ==
  \E q \in Procs \ {p} : \E w \in txCodes[q] : w.id = id

\* the stored row behind an instance, as the worker's transaction sees it
RowOf(p, id) ==
  IF \E w \in txCodes[p] : w.id = id
  THEN CHOOSE w \in txCodes[p] : w.id = id
  ELSE CHOOSE r \in codes : r.id = id

Idle(p) ==
  /\ pc' = [pc EXCEPT ![p] = "idle"]
  /\ req' = [req EXCEPT ![p] = [email |-> <<>>, code |-> ""]]
  /\ obj' = [obj EXCEPT ![p] = NoCode]
  /\ usr' = [usr EXCEPT ![p] = NoUser]
  /\ txCodes' = [txCodes EXCEPT ![p] = {}]
  /\ txUsers' = [txUsers EXCEPT ![p] = {}]
  /\ UNCHANGED served

\* lines 203-207: the request is parsed, the transaction is open
Begin(p, rawEmail, rawCode) ==
  /\ pc[p] = "idle"
  /\ served[p] < MaxRequests
  /\ served' = [served EXCEPT ![p] = @ + 1]
  /\ pc' = [pc EXCEPT ![p] = "find_code"]
  /\ req' = [req EXCEPT ![p] = [email |-> Lower(rawEmail), code |-> rawCode]]
  /\ presp' = [presp EXCEPT ![p] = NoResp]
  /\ UNCHANGED <<now, dbVars, resp, histVars, obj, usr, txCodes, txUsers>>
  /\ UNCHANGED <<guardVars, mailVars, stockVars, aiVars>>

\* line 210: code_obj = LoginCode.objects.filter(...).first()
FindCode(p) ==
  LET code_obj == NewestOf(MatchingCodes(codes, req[p].email, req[p].code))
  IN
  /\ pc[p] = "find_code"
  /\ obj' = [obj EXCEPT ![p] = code_obj]
  /\ pc' = [pc EXCEPT ![p] = IF code_obj.id = 0 THEN "find_latest"
                             ELSE "check"]
  /\ UNCHANGED <<now, dbVars, resp, histVars, req, usr, txCodes, txUsers,
                 served, presp>>
  /\ UNCHANGED <<guardVars, mailVars, stockVars, aiVars>>

\* lines 214-220, no record for the e-mail: the 400 response is ready
FindLatestNone(p) ==
  /\ pc[p] = "find_latest"
  /\ NewestOf(CodesForEmail(codes, req[p].email)).id = 0
  /\ presp' = [presp EXCEPT ![p] = Invalid400("no_match", 0)]
  /\ pc' = [pc EXCEPT ![p] = "commit"]
  /\ UNCHANGED <<now, dbVars, resp, histVars, req, obj, usr, txCodes,
                 txUsers, served>>
  /\ UNCHANGED <<guardVars, mailVars, stockVars, aiVars>>

\* line 214: latest = LoginCode.objects.filter(email__iexact=email)...first()
FindLatest(p) ==
  LET latest == NewestOf(CodesForEmail(codes, req[p].email))
  IN
  /\ pc[p] = "find_latest"
  /\ latest.id # 0
  /\ obj' = [obj EXCEPT ![p] = latest]
  /\ pc' = [pc EXCEPT ![p] = "register"]
  /\ UNCHANGED <<now, dbVars, resp, histVars, req, usr, txCodes, txUsers,
                 served, presp>>
  /\ UNCHANGED <<guardVars, mailVars, stockVars, aiVars>>

\* lines 217, 220: latest.register_attempt() on the instance read before,
\* save(update_fields=["attempts", "locked_until"]), then the 400 response
Register(p) ==
  LET after == RegisterAttempt(obj[p], now)
      row == [RowOf(p, after.id) EXCEPT !.attempts = after.attempts,
                                        !.locked_until = after.locked_until]
  IN
  /\ pc[p] = "register"
  /\ obj[p].attempts < MaxAttemptsCount
  /\ ~RowLockedByOther(p, obj[p].id)
  /\ obj' = [obj EXCEPT ![p] = after]
  /\ txCodes' = [txCodes EXCEPT ![p] = ApplyTx(@, {row})]
  /\ presp' = [presp EXCEPT ![p] = Invalid400("no_match", after.id)]
  /\ pc' = [pc EXCEPT ![p] = "commit"]
  /\ UNCHANGED <<now, dbVars, resp, histVars, req, usr, txUsers, served>>
  /\ UNCHANGED <<guardVars, mailVars, stockVars, aiVars>>

\* lines 223-228: lockout check and is_valid() on the instance
Check(p) ==
  /\ pc[p] = "check"
  /\ IF LockedNow(obj[p], now)
     THEN /\ presp' = [presp EXCEPT ![p] = Locked429(obj[p].id)]
          /\ pc' = [pc EXCEPT ![p] = "commit"]
     ELSE IF ~IsValid(obj[p], now)
     THEN /\ presp' = [presp EXCEPT ![p] =
                         Invalid400("expired_or_used", obj[p].id)]
          /\ pc' = [pc EXCEPT ![p] = "commit"]
     ELSE /\ pc' = [pc EXCEPT ![p] = "mark_used"]
          /\ UNCHANGED presp
  /\ UNCHANGED <<now, dbVars, resp, histVars, req, obj, usr, txCodes,
                 txUsers, served>>
  /\ UNCHANGED <<guardVars, mailVars, stockVars, aiVars>>

\* lines 231-232: code_obj.used = True; save(update_fields=["used"])
MarkUsed(p) ==
  LET row == MarkUsedRow(RowOf(p, obj[p].id))
  IN
  /\ pc[p] = "mark_used"
  /\ ~RowLockedByOther(p, obj[p].id)
  /\ obj' = [obj EXCEPT ![p] = MarkUsedRow(@)]
  /\ txCodes' = [txCodes EXCEPT ![p] = ApplyTx(@, {row})]
  /\ pc' = [pc EXCEPT ![p] = "find_user"]
  /\ UNCHANGED <<now, dbVars, resp, histVars, req, usr, txUsers, served,
                 presp>>
  /\ UNCHANGED <<guardVars, mailVars, stockVars, aiVars>>

\* line 235: user = User.objects.filter(email__iexact=email).first()
FindUser(p) ==
  LET found == FirstUser(users \cup txUsers[p], req[p].email)
  IN
  /\ pc[p] = "find_user"
  /\ usr' = [usr EXCEPT ![p] = found]
  /\ pc' = [pc EXCEPT ![p] = IF found = NoUser THEN "create_user"
                             ELSE "attach"]
  /\ UNCHANGED <<now, dbVars, resp, histVars, req, obj, txCodes, txUsers,
                 served, presp>>
  /\ UNCHANGED <<guardVars, mailVars, stockVars, aiVars>>

\* the response of a request whose transaction was rolled back
Error500(p) ==
  [VerifyBase EXCEPT !.status = 500,
                     !.reason = IF pc[p] \in {"find_user", "create_user",
                                              "attach"}
                                   \/ presp[p].reason = "accepted"
                                THEN "error_after_mark" ELSE "error",
                     !.target = IF txCodes[p] = {} THEN 0 ELSE obj[p].id]

\* lines 237-243: User.objects.create(...); User.email is unique, so the
\* insert waits for an open transaction that inserted the same e-mail and
\* fails when the e-mail is stored
CreateUser(p) ==
  LET email == req[p].email
  IN
  /\ pc[p] = "create_user"
  /\ \A q \in Procs \ {p} : \A u \in txUsers[q] : u.email # email
  /\ IF \E u \in users : u.email = email
     THEN /\ codes' = AfterRollback(codes, txCodes[p])
          /\ users' = AfterRollback(users, txUsers[p])
          /\ presp' = [presp EXCEPT ![p] = Error500(p)]
          /\ Idle(p)
          /\ UNCHANGED nextUid
     ELSE /\ txUsers' = [txUsers EXCEPT ![p] = @ \cup
                           {NewUser(nextUid, email)}]
          /\ usr' = [usr EXCEPT ![p] = nextUid]
          /\ nextUid' = nextUid + 1
          /\ pc' = [pc EXCEPT ![p] = "attach"]
          /\ UNCHANGED <<codes, users, req, obj, txCodes, served, presp>>
  /\ UNCHANGED <<now, nextCid, resp, histVars>>
  /\ UNCHANGED <<guardVars, mailVars, stockVars, aiVars>>

\* lines 246-251: link the record if it has no user, build the response
Attach(p) ==
  LET row == AttachUser(RowOf(p, obj[p].id), usr[p])
  IN
  /\ pc[p] = "attach"
  /\ IF obj[p].user = NoUser
     THEN /\ obj' = [obj EXCEPT ![p] = AttachUser(@, usr[p])]
          /\ txCodes' = [txCodes EXCEPT ![p] = ApplyTx(@, {row})]
     ELSE UNCHANGED <<obj, txCodes>>
  /\ presp' = [presp EXCEPT ![p] = Accepted200(usr[p], obj[p].id)]
  /\ pc' = [pc EXCEPT ![p] = "commit"]
  /\ UNCHANGED <<now, dbVars, resp, histVars, req, usr, txUsers, served>>
  /\ UNCHANGED <<guardVars, mailVars, stockVars, aiVars>>

\* the view returns: transaction.atomic commits, the response goes out
Commit(p) ==
  /\ pc[p] = "commit"
  /\ codes' = ApplyTx(codes, txCodes[p])
  /\ users' = ApplyTx(users, txUsers[p])
  /\ accepted' = IF presp[p].reason = "accepted"
                 THEN [accepted EXCEPT ![presp[p].target] = @ + 1]
                 ELSE accepted
  /\ penalties' = IF presp[p].reason = "no_match" /\ presp[p].target # 0
                  THEN [penalties EXCEPT ![presp[p].target] = @ + 1]
                  ELSE penalties
  /\ Idle(p)
  /\ UNCHANGED <<now, nextCid, nextUid, resp, streak, presp>>
  /\ UNCHANGED <<guardVars, mailVars, stockVars, aiVars>>

\* the request fails or the worker is interrupted inside the transaction:
\* the exception leaves transaction.atomic and nothing is committed
Interrupt(p) ==
  /\ pc[p] \notin {"idle"}
  /\ codes' = AfterRollback(codes, txCodes[p])
  /\ users' = AfterRollback(users, txUsers[p])
  /\ presp' = [presp EXCEPT ![p] = Error500(p)]
  /\ Idle(p)
  /\ UNCHANGED <<now, nextCid, nextUid, resp, histVars>>
  /\ UNCHANGED <<guardVars, mailVars, stockVars, aiVars>>

NextConc ==
  \/ Tick
  \/ \E e \in RawEmails, c \in CodeValues : RequestCode(e, c, TRUE, "delivered")
  \/ \E p \in Procs, e \in RawEmails, c \in CodeValues : Begin(p, e, c)
  \/ \E p \in Procs : FindCode(p)
  \/ \E p \in Procs : FindLatestNone(p)
  \/ \E p \in Procs : FindLatest(p)
  \/ \E p \in Procs : Register(p)
  \/ \E p \in Procs : Check(p)
  \/ \E p \in Procs : MarkUsed(p)
  \/ \E p \in Procs : FindUser(p)
  \/ \E p \in Procs : CreateUser(p)
  \/ \E p \in Procs : Attach(p)
  \/ \E p \in Procs : Commit(p)
  \/ \E p \in Procs : Interrupt(p)

SpecConc == Init /\ [][NextConc]_vars

\* --------------------- one slow request while other requests are served
\* the worker whose request stays in flight
SlowWorker == 1

\* a verify_code request for the same e-mail that is served from start to
\* commit while the slow request is in flight and holds no uncommitted
\* write it would have to wait for
VerifyAlone(rawEmail, rawCode) ==
  /\ pc[SlowWorker] # "idle"
  /\ Lower(rawEmail) = req[SlowWorker].email
  /\ \A p \in Procs : txCodes[p] = {} /\ txUsers[p] = {}
  /\ Verify(rawEmail, rawCode)

NextLoad ==
  \/ Tick
  \/ \E e \in RawEmails, c \in CodeValues : RequestCode(e, c, TRUE, "delivered")
  \/ \E e \in RawEmails, c \in CodeValues : Begin(SlowWorker, e, c)
  \/ FindCode(SlowWorker)
  \/ FindLatestNone(SlowWorker)
  \/ FindLatest(SlowWorker)
  \/ Register(SlowWorker)
  \/ Check(SlowWorker)
  \/ MarkUsed(SlowWorker)
  \/ FindUser(SlowWorker)
  \/ CreateUser(SlowWorker)
  \/ Attach(SlowWorker)
  \/ Commit(SlowWorker)
  \/ Interrupt(SlowWorker)
  \/ \E e \in RawEmails, c \in CodeValues : VerifyAlone(e, c)

SpecLoad == Init /\ [][NextLoad]_vars

\* ------------------------------ Google sign-in beside a verify_code request
\* the worker that serves GoogleAuthView.post
GoogleWorker == 2

GoogleBase == [NoResp EXCEPT !.op = "google_auth"]

\* GoogleAuthView.post, lines 258-272: the id_token is verified and the
\* e-mail is taken from it as Google wrote it; the view opens no transaction
GoogleBegin(p, tokenOk, rawEmail) ==
  /\ pc[p] = "idle"
  /\ served[p] < MaxRequests
  /\ served' = [served EXCEPT ![p] = @ + 1]
  /\ IF tokenOk
     THEN /\ pc' = [pc EXCEPT ![p] = "g_find_user"]
          /\ req' = [req EXCEPT ![p] = [email |-> rawEmail, code |-> ""]]
          /\ presp' = [presp EXCEPT ![p] = NoResp]
     ELSE /\ presp' = [presp EXCEPT ![p] =
                         [GoogleBase EXCEPT !.status = 400,
                                            !.reason = "invalid_token"]]
          /\ UNCHANGED <<pc, req>>
  /\ UNCHANGED <<now, dbVars, resp, histVars, obj, usr, txCodes, txUsers>>
  /\ UNCHANGED <<guardVars, mailVars, stockVars, aiVars>>

\* line 275: user = User.objects.filter(email__iexact=email).first()
GoogleFindUser(p) ==
  LET found == FirstUser(users, req[p].email)
  IN
  /\ pc[p] = "g_find_user"
  /\ usr' = [usr EXCEPT ![p] = found]
  /\ pc' = [pc EXCEPT ![p] = IF found = NoUser THEN "g_create_user"
                             ELSE "g_return"]
  /\ UNCHANGED <<now, dbVars, resp, histVars, req, obj, txCodes, txUsers,
                 served, presp>>
  /\ UNCHANGED <<guardVars, mailVars, stockVars, aiVars>>

\* lines 276-279: User.objects.create(...) stored at once; User.email is
\* unique, so the insert waits for an open transaction that inserted the
\* same e-mail and fails when the e-mail is stored
GoogleCreateUser(p) ==
  LET email == req[p].email
  IN
  /\ pc[p] = "g_create_user"
  /\ \A q \in Procs \ {p} : \A u \in txUsers[q] : u.email # email
  /\ IF \E u \in users : u.email = email
     THEN /\ presp' = [presp EXCEPT ![p] =
                         [GoogleBase EXCEPT !.status = 500,
                                            !.reason = "error"]]
          /\ Idle(p)
          /\ UNCHANGED <<users, nextUid>>
     ELSE /\ users' = users \cup {NewUser(nextUid, email)}
          /\ nextUid' = nextUid + 1
          /\ usr' = [usr EXCEPT ![p] = nextUid]
          /\ pc' = [pc EXCEPT ![p] = "g_return"]
          /\ UNCHANGED <<req, obj, txCodes, txUsers, served, presp>>
  /\ UNCHANGED <<now, codes, nextCid, resp, histVars>>
  /\ UNCHANGED <<guardVars, mailVars, stockVars, aiVars>>

\* lines 280-281: the user and a token pair are returned
GoogleReturn(p) ==
  /\ pc[p] = "g_return"
  /\ presp' = [presp EXCEPT ![p] =
                 [GoogleBase EXCEPT !.status = 200, !.reason = "accepted",
                                    !.user = usr[p], !.tokens = usr[p]]]
  /\ Idle(p)
  /\ UNCHANGED <<now, dbVars, resp, histVars>>
  /\ UNCHANGED <<guardVars, mailVars, stockVars, aiVars>>

NextSignIn ==
  \/ Tick
  \/ \E e \in RawEmails, c \in CodeValues : RequestCode(e, c, TRUE, "delivered")
  \/ \E e \in RawEmails, c \in CodeValues : Begin(SlowWorker, e, c)
  \/ FindCode(SlowWorker)
  \/ FindLatestNone(SlowWorker)
  \/ FindLatest(SlowWorker)
  \/ Register(SlowWorker)
  \/ Check(SlowWorker)
  \/ MarkUsed(SlowWorker)
  \/ FindUser(SlowWorker)
  \/ CreateUser(SlowWorker)
  \/ Attach(SlowWorker)
  \/ Commit(SlowWorker)
  \/ Interrupt(SlowWorker)
  \/ \E ok \in BOOLEAN, e \in RawEmails : GoogleBegin(GoogleWorker, ok, e)
  \/ GoogleFindUser(GoogleWorker)
  \/ GoogleCreateUser(GoogleWorker)
  \/ GoogleReturn(GoogleWorker)

SpecSignIn == Init /\ [][NextSignIn]_vars

\* ----------------------------------- request_code, statement by statement
\* a view that hands the code to the mailer before it is stored
IssueStepAfterSendFirst(step) ==
  CASE step = "i_find_user" -> "i_send"
    [] step = "i_send" -> "i_create"
    [] step = "i_create" -> "i_return"

\* RequestLoginCodeView.post: the statement that follows each statement
IssueStepAfter(step) ==
  CASE step = "i_find_user" -> "i_create"
    [] step = "i_create" -> "i_send"
    [] step = "i_send" -> "i_return"

\* lines 156-159: the request is parsed; the view opens no transaction
IssueBegin(p, rawEmail) ==
  /\ pc[p] = "idle"
  /\ served[p] < MaxRequests
  /\ served' = [served EXCEPT ![p] = @ + 1]
  /\ pc' = [pc EXCEPT ![p] = "i_find_user"]
  /\ req' = [req EXCEPT ![p] = [email |-> Lower(rawEmail), code |-> ""]]
  /\ presp' = [presp EXCEPT ![p] = NoResp]
  /\ UNCHANGED <<now, dbVars, resp, histVars, obj, usr, txCodes, txUsers>>
  /\ UNCHANGED <<guardVars, mailVars, stockVars, aiVars>>

\* line 162: user = User.objects.filter(email__iexact=email).first()
IssueFindUser(p) ==
  /\ pc[p] = "i_find_user"
  /\ usr' = [usr EXCEPT ![p] = FirstUser(users, req[p].email)]
  /\ pc' = [pc EXCEPT ![p] = IssueStepAfter("i_find_user")]
  /\ UNCHANGED <<now, dbVars, resp, histVars, req, obj, txCodes, txUsers,
                 served, presp>>
  /\ UNCHANGED <<guardVars, mailVars, stockVars, aiVars>>

\* lines 165-170: LoginCode.create_code stores the record at once; when it
\* raises, the view answers 500 and the request is over
IssueCreate(p, code, createOk) ==
  LET code_obj == CreateCode(nextCid, req[p].email, usr[p], code, now)
  IN
  /\ pc[p] = "i_create"
  /\ nextCid <= MaxCodes
  /\ IF ~createOk
     THEN /\ presp' = [presp EXCEPT ![p] =
                         [NoResp EXCEPT !.op = "request_code",
                                        !.status = 500,
                                        !.reason = "create_failed"]]
          /\ Idle(p)
          /\ UNCHANGED <<codes, nextCid, streak>>
     ELSE /\ codes' = codes \cup {code_obj}
          /\ nextCid' = nextCid + 1
          /\ streak' = StreakReset(req[p].email)
          /\ obj' = [obj EXCEPT ![p] = code_obj]
          /\ pc' = [pc EXCEPT ![p] = IssueStepAfter("i_create")]
          /\ UNCHANGED <<req, usr, txCodes, txUsers, served, presp>>
  /\ UNCHANGED <<now, users, nextUid, resp, accepted, penalties>>
  /\ UNCHANGED <<guardVars, mailVars, stockVars, aiVars>>

\* line 174: send_login_code_email(email, code_obj.code, ...) hands the
\* message to the mailer thread; outbox notes whether the insert of the
\* record had been made by then
IssueSend(p, delivery) ==
  /\ pc[p] = "i_send"
  /\ outbox' = outbox \cup
       {[worker |-> p, request |-> served[p], id |-> obj[p].id,
         email |-> req[p].email, code |-> obj[p].code,
         stored |-> obj[p].id \in 1..(nextCid - 1),
         delivery |-> delivery,
         sent |-> SendLoginCodeEmail(delivery)]}
  /\ pc' = [pc EXCEPT ![p] = IssueStepAfter("i_send")]
  /\ UNCHANGED <<now, dbVars, resp, histVars, req, obj, usr, txCodes,
                 txUsers, served, presp>>
  /\ UNCHANGED <<guardVars, stockVars, aiVars>>

\* lines 187-191: the 200 response
IssueReturn(p) ==
  /\ pc[p] = "i_return"
  /\ presp' = [presp EXCEPT ![p] =
                 [NoResp EXCEPT !.op = "request_code", !.status = 200,
                                !.reason = "code_sent",
                                !.target = obj[p].id]]
  /\ Idle(p)
  /\ UNCHANGED <<now, dbVars, resp, histVars>>
  /\ UNCHANGED <<guardVars, mailVars, stockVars, aiVars>>

NextIssue ==
  \/ Tick
  \/ \E p \in Procs, e \in RawEmails : IssueBegin(p, e)
  \/ \E p \in Procs : IssueFindUser(p)
  \/ \E p \in Procs, c \in CodeValues, ok \in BOOLEAN : IssueCreate(p, c, ok)
  \/ \E p \in Procs, d \in Deliveries : IssueSend(p, d)
  \/ \E p \in Procs : IssueReturn(p)
  \/ Cleanup

SpecIssue == Init /\ [][NextIssue]_vars

\* ------------------------------------------- adjust_stock on one product
\* inventory/signals.py is imported: @receiver connects product_post_save
\* to post_save of Product
ImportSignals ==
  /\ receivers = {}
  /\ receivers' = {"product_post_save"}
  /\ UNCHANGED <<quantity, stockLogs, notifs, spc, sinst, schange, scall,
                 sresp, nextCall>>
  /\ UNCHANGED <<now, dbVars, resp, histVars, procVars>>
  /\ UNCHANGED <<guardVars, mailVars, aiVars>>

\* lines 194-201: product = self.get_object(); change = int(...); a value
\* int() rejects is answered 400
AdjustBegin(p, raw) ==
  LET change == ParseInt(raw)
  IN
  /\ spc[p] = "idle"
  /\ nextCall <= MaxAdjusts
  /\ nextCall' = nextCall + 1
  /\ scall' = [scall EXCEPT ![p] = nextCall]
  /\ IF change.ok
     THEN /\ sinst' = [sinst EXCEPT ![p] = quantity]
          /\ schange' = [schange EXCEPT ![p] = change.value]
          /\ spc' = [spc EXCEPT ![p] = "s_save"]
          /\ sresp' = [sresp EXCEPT ![p] = 0]
     ELSE /\ sresp' = [sresp EXCEPT ![p] = 400]
          /\ UNCHANGED <<sinst, schange, spc>>
  /\ UNCHANGED <<quantity, stockLogs, notifs, receivers>>
  /\ UNCHANGED <<now, dbVars, resp, histVars, procVars>>
  /\ UNCHANGED <<guardVars, mailVars, aiVars>>

\* lines 203-204: product.quantity = product.quantity + change;
\* product.save() writes the instance and runs the post_save receivers
AdjustSave(p) ==
  LET after == sinst[p] + schange[p]
  IN
  /\ spc[p] = "s_save"
  /\ sinst' = [sinst EXCEPT ![p] = after]
  /\ quantity' = after
  /\ notifs' = IF "product_post_save" \in receivers
               THEN ProductPostSave(notifs, scall[p], after, users)
               ELSE notifs
  /\ spc' = [spc EXCEPT ![p] = "s_log"]
  /\ UNCHANGED <<stockLogs, receivers, schange, scall, sresp, nextCall>>
  /\ UNCHANGED <<now, dbVars, resp, histVars, procVars>>
  /\ UNCHANGED <<guardVars, mailVars, aiVars>>

\* lines 206-213: StockLog.objects.create(...)
AdjustLog(p) ==
  /\ spc[p] = "s_log"
  /\ stockLogs' = Append(stockLogs,
                         [call |-> scall[p], change_amount |-> schange[p],
                          resulting_quantity |-> sinst[p]])
  /\ spc' = [spc EXCEPT ![p] = "s_notify"]
  /\ UNCHANGED <<quantity, notifs, receivers, sinst, schange, scall, sresp,
                 nextCall>>
  /\ UNCHANGED <<now, dbVars, resp, histVars, procVars>>
  /\ UNCHANGED <<guardVars, mailVars, aiVars>>

\* lines 216-255: the low-stock notifications of the view, then the 200
AdjustNotify(p) ==
  /\ spc[p] = "s_notify"
  /\ notifs' = IF sinst[p] <= LowStockThreshold
               THEN notifs \cup LowStockRows(notifs, scall[p],
                                             AdminsOrSuperusers(users), "view")
               ELSE notifs
  /\ sresp' = [sresp EXCEPT ![p] = 200]
  /\ spc' = [spc EXCEPT ![p] = "idle"]
  /\ UNCHANGED <<quantity, stockLogs, receivers, sinst, schange, scall,
                 nextCall>>
  /\ UNCHANGED <<now, dbVars, resp, histVars, procVars>>
  /\ UNCHANGED <<guardVars, mailVars, aiVars>>

NextStock ==
  \/ ImportSignals
  \/ \E p \in Procs, c \in ChangeAmounts : AdjustBegin(p, c)
  \/ \E p \in Procs : AdjustSave(p)
  \/ \E p \in Procs : AdjustLog(p)
  \/ \E p \in Procs : AdjustNotify(p)

SpecStock == Init /\ [][NextStock]_vars

\* ------------------------------------------------------ ollama_generate
\* lines 79-82: the call starts; range(1, OLLAMA_MAX_RETRIES + 1) gives the
\* first attempt, or nothing at all
OllamaBegin ==
  /\ oAttempt = 0
  /\ oResult = NoResult
  /\ IF OLLAMA_MAX_RETRIES >= 1
     THEN /\ oAttempt' = 1
          /\ UNCHANGED oResult
     ELSE /\ oResult' = [kind |-> "returned_nothing", value |-> "None"]
          /\ UNCHANGED oAttempt
  /\ UNCHANGED <<oLog, oSlept>>
  /\ UNCHANGED <<now, dbVars, resp, histVars, procVars>>
  /\ UNCHANGED <<guardVars, mailVars, stockVars>>

\* lines 83-92: one pass of the loop body
OllamaAttempt(outcome) ==
  /\ oAttempt \in 1..OLLAMA_MAX_RETRIES
  /\ oResult = NoResult
  /\ oLog' = Append(oLog, outcome)
  /\ IF outcome \in OllamaSuccesses
     THEN /\ oResult' = [kind |-> "returned",
                         value |-> IF outcome = "response" THEN "response"
                                   ELSE "json.dumps(data)"]
          /\ UNCHANGED <<oAttempt, oSlept>>
     ELSE IF LastAttempt(oAttempt)
     THEN /\ oResult' = [kind |-> "raised", value |-> outcome]
          /\ UNCHANGED <<oAttempt, oSlept>>
     ELSE /\ oSlept' = Append(oSlept, oAttempt - 1)
          /\ IF oAttempt + 1 > OLLAMA_MAX_RETRIES
             THEN /\ oResult' = [kind |-> "returned_nothing",
                                 value |-> "None"]
                  /\ UNCHANGED oAttempt
             ELSE /\ oAttempt' = oAttempt + 1
                  /\ UNCHANGED oResult
  /\ UNCHANGED <<now, dbVars, resp, histVars, procVars>>
  /\ UNCHANGED <<guardVars, mailVars, stockVars>>

NextOllama ==
  \/ OllamaBegin
  \/ \E o \in OllamaSuccesses \cup OllamaFailures : OllamaAttempt(o)

\* the caller makes the call, and every HTTP attempt ends: requests.post is
\* given a timeout and time.sleep returns
SpecOllama == Init /\ [][NextOllama]_vars /\ WF_vars(NextOllama)

\* ------------------------------- throttle and permission checks of requests
\* SimpleRateThrottle.allow_request with RequestCodeThrottle.get_cache_key:
\* a request is counted under its key unless the key's quota is used up
ThrottleRequest(ident, data) ==
  LET key == GetCacheKey(ident, data)
  IN
  /\ IF cache[key] >= RequestCodeRate
     THEN UNCHANGED <<cache, hits>>
     ELSE /\ cache' = [cache EXCEPT ![key] = @ + 1]
          /\ hits' = hits \cup {[ident |-> ident, data |-> data,
                                  key |-> key]}
  /\ UNCHANGED <<now, dbVars, resp, histVars, procVars, perm>>
  /\ UNCHANGED <<mailVars, stockVars, aiVars>>

\* a view guarded by IsAdminOrStaffWrite checks a request and its object
CheckPermission(method, user) ==
  /\ perm' = [method |-> method, user |-> user,
              granted |-> HasPermission(method, user),
              object_granted |-> HasObjectPermission(method, user)]
  /\ UNCHANGED <<now, dbVars, resp, histVars, procVars, cache, hits>>
  /\ UNCHANGED <<mailVars, stockVars, aiVars>>

NextGuards ==
  \/ \E i \in Idents, d \in ThrottleData : ThrottleRequest(i, d)
  \/ \E m \in Methods, u \in Callers : CheckPermission(m, u)

SpecGuards == Init /\ [][NextGuards]_vars

\* ===================================================== properties checked
\* the stored records a verify for (e, c) can match
PMatch(e, c) == {r \in codes : Lower(r.email) = Lower(e) /\ r.code = c}

\* the stored records of an e-mail
PForEmail(e) == {r \in codes : Lower(r.email) = Lower(e)}

\* the most recently inserted record of a non-empty set
PNewest(S) == CHOOSE r \in S : \A q \in S : q.id <= r.id

\* the row with the given id
PRow(cs, id) == CHOOSE r \in cs : r.id = id

\* locked_until is set and later than the clock
PLockedFuture(r) == r.locked_until # NULL /\ r.locked_until > now

\* unused, unexpired (now < expires_at) and not locked
PUsable(r) == ~r.used /\ now < r.expires_at /\ ~PLockedFuture(r)

\* u is a prefix of the address that ends right before its first "@"
PIsLocalPart(u, email) ==
  /\ Len(u) < Len(email)
  /\ SubSeq(email, 1, Len(u)) = u
  /\ email[Len(u) + 1] = "@"
  /\ \A i \in 1..Len(u) : u[i] # "@"

\* C1: two concurrent verify_code calls with the same e-mail and the same
\* correct code of one valid record never both succeed: no record is
\* accepted by more than one request.
C1_NeverBothAccepted == \A i \in DOMAIN accepted : accepted[i] <= 1

\* C2 as stated: a verify whose e-mail and code are those of an unused,
\* unexpired, unlocked record is Accepted and marks that record used, and
\* every verify with the e-mail and code of a record accepted before returns
\* Rejected(expired_or_used).
C2_AsStated ==
  [][\A e \in RawEmails, c \in CodeValues : Verify(e, c) =>
       \A r \in PMatch(e, c) :
         /\ PUsable(r) => /\ resp'.reason = "accepted"
                          /\ PRow(codes', r.id).used
         /\ accepted[r.id] >= 1 => resp'.reason = "expired_or_used"]_vars

\* C2 (amended): served one by one, a verify whose newest matching record is
\* unused, unexpired and unlocked is Accepted and marks that record used;
\* a verify whose newest matching record is used is rejected, with
\* expired_or_used or, when wrong guesses have locked the record, with
\* locked, and accepts nothing; no record is accepted more than once.
C2_AcceptedOnce ==
  [][\A e \in RawEmails, c \in CodeValues : Verify(e, c) =>
       /\ \A i \in DOMAIN accepted : accepted'[i] <= 1
       /\ PMatch(e, c) # {} =>
            LET m == PNewest(PMatch(e, c)) IN
            /\ PUsable(m) => /\ resp'.reason = "accepted"
                             /\ resp'.target = m.id
                             /\ PRow(codes', m.id).used
                             /\ accepted'[m.id] = 1
            /\ m.used => /\ resp'.reason = IF PLockedFuture(m) THEN "locked"
                                           ELSE "expired_or_used"
                         /\ resp'.status \in {400, 429}
                         /\ accepted' = accepted]_vars

\* C2 witness: a record accepted once has been verified again and rejected
C2_SecondVerifyRejected ==
  /\ resp.op = "verify_code"
  /\ resp.reason = "expired_or_used"
  /\ resp.target # 0
  /\ accepted[resp.target] = 1

C4_ExpiredAtExpiresAt ==
  [][\A e \in RawEmails, c \in CodeValues : Verify(e, c) /\
       (/\ PMatch(e, c) # {}
        /\ PNewest(PMatch(e, c)).expires_at = now
        /\ ~PNewest(PMatch(e, c)).used
        /\ ~PLockedFuture(PNewest(PMatch(e, c))))
       => /\ resp'.reason = "expired_or_used"
          /\ resp'.status = 400]_vars

\* C5: after a request_code whose mail could not be sent, the request has
\* reported failure and the record it created is not in the store.
C5_FailedDeliveryDiscarded ==
  (/\ resp.op = "request_code"
   /\ resp.target # 0
   /\ resp.delivery \in {"smtp_error", "thread_error"})
  => /\ resp.status = 500
     /\ \A r \in codes : r.id # resp.target

\* C6: in every committed state a used record is linked to a stored account
\* of its e-mail, also after a request failed between marking the record
\* used and creating or linking the account.
C6_UsedHasLinkedAccount ==
  \A r \in codes :
    r.used => /\ r.user # NoUser
              /\ \E u \in users : /\ u.id = r.user
                                  /\ Lower(u.email) = Lower(r.email)

\* C6 witness: a request failed after it had marked a record used, and the
\* stored record is unused and unlinked
C6_FailedAfterMark ==
  \E p \in Procs :
    /\ presp[p].status = 500
    /\ presp[p].reason = "error_after_mark"
    /\ \E r \in codes : /\ r.id = presp[p].target
                        /\ ~r.used
                        /\ r.user = NoUser

\* C7: no wrong-code penalty is lost: the attempts counter of every record
\* equals the number of committed wrong-code verifies that penalised it,
\* also when two of them ran concurrently, and the record is locked once
\* that number has reached max_attempts.
C7_NoLostAttempt ==
  \A r \in codes :
    /\ r.attempts = penalties[r.id]
    /\ penalties[r.id] >= r.max_attempts => r.locked_until # NULL

\* C8 as stated: a verify whose e-mail and code match a used record is
\* rejected, leaves that record's attempts unchanged and creates no account.
C8_AsStated ==
  [][\A e \in RawEmails, c \in CodeValues : Verify(e, c) =>
       \A r \in PMatch(e, c) :
         r.used => /\ resp'.status # 200
                   /\ PRow(codes', r.id).attempts = r.attempts
                   /\ users' = users]_vars

\* C8 (amended): a verify whose newest record matching e-mail and code is
\* used is rejected, changes no record (attempts included) and creates no
\* account, however often it is repeated.
C8_UsedRecordUntouched ==
  [][\A e \in RawEmails, c \in CodeValues : Verify(e, c) /\
       (PMatch(e, c) # {} /\ PNewest(PMatch(e, c)).used)
       => /\ resp'.status \in {400, 429}
          /\ resp'.user = NoUser
          /\ \A r \in codes : /\ r \in codes'
                              /\ PRow(codes', r.id).attempts = r.attempts
          /\ users' = users
          /\ accepted' = accepted]_vars

\* C8 witness: a used record that carries attempts was verified again with
\* its own code and rejected
C8_UsedVerifiedAgain ==
  /\ resp.op = "verify_code"
  /\ resp.status \in {400, 429}
  /\ resp.reason \in {"expired_or_used", "locked"}
  /\ \E r \in codes : r.id = resp.target /\ r.used /\ r.attempts > 0

\* C9: a verify with the code of the newest matching record, while that
\* record is usable and no account exists for the e-mail, answers 200 with
\* user and tokens, creates exactly one account for the e-mail, with role
\* staff and the local part as username, and leaves the record used and
\* linked to that account.
C9_AccountProvisioned ==
  [][\A e \in RawEmails, c \in CodeValues : Verify(e, c) /\
       (/\ PMatch(e, c) # {}
        /\ PUsable(PNewest(PMatch(e, c)))
        /\ \A u \in users : Lower(u.email) # Lower(e))
       => /\ resp'.status = 200
          /\ resp'.user # NoUser
          /\ resp'.tokens = resp'.user
          /\ Cardinality(users' \ users) = 1
          /\ users \subseteq users'
          /\ \A u \in users' \ users :
               /\ u.id = resp'.user
               /\ u.email = Lower(e)
               /\ u.role = "staff"
               /\ u.is_active
               /\ PIsLocalPart(u.username, u.email)
          /\ Cardinality({u \in users' : Lower(u.email) = Lower(e)}) = 1
          /\ PRow(codes', PNewest(PMatch(e, c)).id).used
          /\ PRow(codes', PNewest(PMatch(e, c)).id).user = resp'.user]_vars

\* C9 witness: the last verify was accepted for an account that did not
\* exist at the start and the record is used and linked to it
C9_NewAccountSignedIn ==
  /\ resp.op = "verify_code"
  /\ resp.status = 200
  /\ \E u \in users : u.id = resp.user /\ u # Bob /\ u.role = "staff"
  /\ \E r \in codes : r.id = resp.target /\ r.used /\ r.user = resp.user

\* C10: verify answers 429 exactly when the newest record matching e-mail
\* and code has locked_until in the future, 400 for every other rejection
\* (no matching record, or a matching record that is used or past
\* expires_at), and carries user and tokens only when it accepts.
C10_StatusCodes ==
  [][\A e \in RawEmails, c \in CodeValues : Verify(e, c) =>
       LET S == PMatch(e, c)
           lockedFuture == S # {} /\ PLockedFuture(PNewest(S))
       IN
       /\ resp'.status \in {200, 400, 429}
       /\ resp'.status = 429 <=> lockedFuture
       /\ resp'.status = 200 <=> resp'.reason = "accepted"
       /\ resp'.status = 400 <=> resp'.reason \in {"no_match",
                                                    "expired_or_used"}
       /\ S = {} => resp'.status = 400
       /\ (S # {} /\ ~lockedFuture /\ PNewest(S).used) => resp'.status = 400
       /\ (S # {} /\ ~lockedFuture /\ PNewest(S).expires_at < now)
            => resp'.status = 400
       /\ resp'.user # NoUser <=> resp'.status = 200
       /\ resp'.tokens # NoUser <=> resp'.status = 200]_vars

\* C10 witness: a matching record whose lock has run out was answered 400
\* because it is expired, not 429
C10_ElapsedLockAnswered400 ==
  /\ resp.op = "verify_code"
  /\ resp.status = 400
  /\ resp.reason = "expired_or_used"
  /\ \E r \in codes : /\ r.id = resp.target
                      /\ r.locked_until # NULL
                      /\ r.locked_until <= now

\* C11: for every stored record and the current time, is_valid() is true
\* iff the record is unused, now < expires_at, and locked_until is null or
\* not later than now.
C11_IsValidIffUsable ==
  \A r \in codes :
    IsValid(r, now) <=> /\ ~r.used
                        /\ now < r.expires_at
                        /\ (r.locked_until = NULL \/ now >= r.locked_until)

\* C12: a no-match verify whose attempt increment cannot be stored fails as
\* a server error (HTTP 5xx), not with the 400 of a wrong code.
C12_SaveFailureIs5xx ==
  [][\A e \in RawEmails, c \in CodeValues :
       VerifyAttemptSaveFails(e, c) => resp'.status >= 500]_vars

\* the e-mail a request names, compared case-insensitively and trimmed
PNamedEmail(data) ==
  IF data.readable THEN Strip(Lower(data.email)) ELSE <<>>

\* C13: two counted request_code requests fall into the same throttle
\* bucket iff they come from the same client address and name the same
\* e-mail (case-insensitively, trimmed).
C13_BucketPerIpAndEmail ==
  \A a \in hits, b \in hits :
    a.key = b.key <=> /\ a.ident = b.ident
                      /\ PNamedEmail(a.data) = PNamedEmail(b.data)

\* C14: IsAdminOrStaffWrite grants a request iff its method is safe, or it
\* is DELETE from an authenticated admin or superuser, or it is another
\* write from an authenticated admin or staff user; the object-level
\* answer equals the request-level answer.
C14_PermissionTable ==
  perm.method # "none" =>
    /\ perm.granted <=>
         \/ perm.method \in {"GET", "HEAD", "OPTIONS"}
         \/ /\ perm.method = "DELETE"
            /\ perm.user.is_authenticated
            /\ (perm.user.role = "admin" \/ perm.user.is_superuser)
         \/ /\ perm.method \in {"POST", "PUT", "PATCH"}
            /\ perm.user.is_authenticated
            /\ perm.user.role \in {"admin", "staff"}
    /\ perm.object_granted = perm.granted

\* C14 witness: a superuser whose role is not admin was allowed to DELETE
C14_SuperuserDeletes ==
  /\ perm.method = "DELETE"
  /\ perm.user.is_superuser
  /\ perm.user.role # "admin"
  /\ perm.granted
  /\ perm.object_granted

\* C15: a verify for which no record matches e-mail and code answers
\* Rejected(no_match), adds exactly 1 to attempts of the newest record of
\* the e-mail whatever its state (only attempts and locked_until of that
\* record may differ afterwards), leaves every other record unchanged, and
\* changes no record when the e-mail has none.
C15_WrongCodePenalisesLatest ==
  [][\A e \in RawEmails, c \in CodeValues : Verify(e, c) /\
       (PMatch(e, c) = {})
       => /\ resp'.status = 400
          /\ resp'.reason = "no_match"
          /\ users' = users
          /\ accepted' = accepted
          /\ IF PForEmail(e) = {} THEN codes' = codes
             ELSE LET l == PNewest(PForEmail(e)) IN
                  /\ {r.id : r \in codes'} = {r.id : r \in codes}
                  /\ PRow(codes', l.id).attempts = l.attempts + 1
                  /\ [PRow(codes', l.id) EXCEPT !.attempts = 0,
                                                !.locked_until = NULL]
                       = [l EXCEPT !.attempts = 0, !.locked_until = NULL]
                  /\ \A r \in codes : r.id # l.id => r \in codes']_vars

\* C15 witness: a wrong code has penalised a record that was already used
C15_UsedRecordPenalised ==
  /\ resp.op = "verify_code"
  /\ resp.reason = "no_match"
  /\ \E r \in codes : /\ r.id = resp.target
                      /\ r.used
                      /\ r.attempts >= 1
                      /\ r.attempts = penalties[r.id]

\* C16 as stated: a verify whose e-mail and code match a record with
\* locked_until later than now is not accepted, answers Rejected(locked)
\* and leaves that record unchanged.
C16_AsStated ==
  [][\A e \in RawEmails, c \in CodeValues : Verify(e, c) =>
       \A r \in PMatch(e, c) :
         PLockedFuture(r) => /\ resp'.status # 200
                             /\ resp'.reason = "locked"
                             /\ PRow(codes', r.id) = r]_vars

\* C16 (amended): a verify whose newest record matching e-mail and code
\* has locked_until later than now answers Rejected(locked) with 429, is
\* not accepted, and changes no record (attempts, locked_until and used
\* included) and no account.
C16_LockedMatchUntouched ==
  [][\A e \in RawEmails, c \in CodeValues : Verify(e, c) /\
       (PMatch(e, c) # {} /\ PLockedFuture(PNewest(PMatch(e, c))))
       => /\ resp'.status = 429
          /\ resp'.reason = "locked"
          /\ resp'.target = PNewest(PMatch(e, c)).id
          /\ resp'.user = NoUser
          /\ codes' = codes
          /\ users' = users
          /\ accepted' = accepted
          /\ penalties' = penalties]_vars

\* C16 witness: the code of a locked record was answered Locked and the
\* record still has the attempts and the lock its penalties gave it
C16_LockedNotExtended ==
  /\ resp.op = "verify_code"
  /\ resp.status = 429
  /\ \E r \in codes : /\ r.id = resp.target
                      /\ r.locked_until # NULL
                      /\ r.locked_until > now
                      /\ r.attempts = penalties[r.id]
                      /\ r.attempts >= r.max_attempts

\* C19: verify examines the newest record matching e-mail and code only:
\* when that record is used, expired (now >= expires_at) or locked the
\* call is rejected, also when an older record with the same e-mail and
\* code is still valid, and no older matching record is changed.
C19_OnlyNewestMatchExamined ==
  [][\A e \in RawEmails, c \in CodeValues : Verify(e, c) /\
       (PMatch(e, c) # {})
       => LET m == PNewest(PMatch(e, c)) IN
          /\ resp'.target = m.id
          /\ \A r \in PMatch(e, c) : r.id # m.id => r \in codes'
          /\ (m.used \/ now >= m.expires_at \/ PLockedFuture(m))
               => /\ resp'.status \in {400, 429}
                  /\ codes' = codes]_vars

\* C20: when the newest record matching e-mail and code is locked
\* (locked_until later than now) and also used or expired, verify answers
\* Rejected(locked) with 429, not Rejected(expired_or_used).
C20_LockedBeforeValidity ==
  [][\A e \in RawEmails, c \in CodeValues : Verify(e, c) /\
       (/\ PMatch(e, c) # {}
        /\ PLockedFuture(PNewest(PMatch(e, c)))
        /\ (PNewest(PMatch(e, c)).used
             \/ now >= PNewest(PMatch(e, c)).expires_at))
       => /\ resp'.status = 429
          /\ resp'.reason = "locked"
          /\ resp'.reason # "expired_or_used"]_vars

\* C20 witness: a record that is used and locked was verified with its own
\* code and the answer was Locked
C20_UsedAndLockedAnswered429 ==
  /\ resp.op = "verify_code"
  /\ resp.status = 429
  /\ resp.reason = "locked"
  /\ \E r \in codes : /\ r.id = resp.target
                      /\ r.used
                      /\ r.locked_until # NULL
                      /\ r.locked_until > now

\* C17: a stored record has locked_until set iff attempts >= max_attempts,
\* and a lock that is set stays set as long as the record is stored.
C17_LockIffMaxAttempts ==
  [][/\ \A q \in codes' :
          q.locked_until # NULL <=> q.attempts >= q.max_attempts
     /\ \A r \in codes, q \in codes' :
          (q.id = r.id /\ r.locked_until # NULL) => q.locked_until # NULL]_vars

\* C18: as long as a record is stored its used flag never goes from true to
\* false and its attempts counter never decreases.
C18_UsedAndAttemptsMonotone ==
  [][\A r \in codes, q \in codes' :
       q.id = r.id => /\ r.used => q.used
                      /\ q.attempts >= r.attempts]_vars

\* ------------------------------------------------------------------ C21
\* C21: after any interleaving of verify_code and Google sign-in requests
\* the stored accounts hold at most one account per e-mail, compared
\* without regard to case.
C21_OneAccountPerEmail ==
  \A u \in users : \A v \in users : IExact(u.email, v.email) => u = v

\* ------------------------------------------------------------------ C22
\* C22: a cleanup run put in front of a verify changes neither whether the
\* verify is accepted nor the attempts and lock state the verify leaves on
\* the records that survive the cleanup.
C22_CleanupTransparent ==
  \A e \in RawEmails, c \in CodeValues :
    LET uid == IF FirstUser(users, Lower(e)) = NoUser THEN nextUid
               ELSE FirstUser(users, Lower(e))
        plain == VerifyOutcome(codes, e, c, uid, now)
        swept == VerifyOutcome(CleanupKept(codes, now), e, c, uid, now)
    IN /\ (plain.reason = "accepted") = (swept.reason = "accepted")
       /\ \A r \in swept.codes :
            \A q \in plain.codes :
              q.id = r.id => /\ q.attempts = r.attempts
                             /\ q.locked_until = r.locked_until

\* ------------------------------------------------------------------ C23
\* C23: one cleanup run deletes exactly the records that are used or were
\* created before now minus the retention window and leaves the others as
\* they are; a second run at the same time finds nothing to delete; with a
\* retention window not shorter than the ttl no deleted record was usable.
C23_CleanupExact ==
  [][Cleanup =>
      LET older_than == now - LOGIN_CODE_CLEANUP_DAYS
          doomed == {r \in codes : r.used \/ r.created_at < older_than}
      IN /\ \A r \in codes : r \in doomed <=> r \notin codes'
         /\ codes' \subseteq codes
         /\ \A r \in codes' : ~r.used /\ ~(r.created_at < now' - LOGIN_CODE_CLEANUP_DAYS)
         /\ LOGIN_CODE_CLEANUP_DAYS >= LOGIN_CODE_EXPIRE_MINUTES =>
              \A r \in codes : r \notin codes' => ~PUsable(r) /\ ~IsValid(r, now)
  ]_vars

\* C23 witness: a record that was never accepted has been swept for its age
\* while a younger record stayed stored
C23_AgedRecordSwept ==
  /\ \E id \in 1..(nextCid - 1) :
       /\ accepted[id] = 0
       /\ \A r \in codes : r.id # id
  /\ \E r \in codes : ~r.used /\ r.created_at >= now - LOGIN_CODE_CLEANUP_DAYS

\* ------------------------------------------------------------------ C24
\* C24: a request_code call whose record is created stores exactly one new
\* record, unused, with attempts 0, no lock, expires_at = creation time + ttl
\* and the configured max_attempts; the record is linked to the account whose
\* e-mail matches without regard to case, if there is one; no account is
\* created and every record stored before stays as it was.
C24_IssueCreatesOneRecord ==
  [][\A e \in RawEmails, c \in CodeValues, d \in Deliveries :
      RequestCode(e, c, TRUE, d) =>
        /\ Cardinality(codes' \ codes) = 1
        /\ \A n \in codes' \ codes :
             /\ n.email = Lower(e) /\ n.code = c
             /\ ~n.used /\ n.attempts = 0 /\ n.locked_until = NULL
             /\ n.created_at = now
             /\ n.expires_at = now + LOGIN_CODE_EXPIRE_MINUTES
             /\ n.max_attempts = LOGIN_CODE_MAX_ATTEMPTS
             /\ \A u \in users : Lower(u.email) = Lower(e) => n.user = u.id
             /\ (\A u \in users : Lower(u.email) # Lower(e)) => n.user = NoUser
        /\ users' = users
        /\ codes \subseteq codes'
  ]_vars

\* C24 witness: a code was issued for an address that has a locked record
\* and an account stored under another spelling; the new record is linked
\* to the account and the locked record is still stored
C24_IssuedBesideLockedRecord ==
  /\ resp.op = "request_code" /\ resp.status = 200
  /\ \E n \in codes :
       /\ n.id = resp.target /\ n.attempts = 0 /\ n.user = Bob.id
       /\ n.email # Bob.email
       /\ \E r \in codes : r.id < n.id /\ r.email = n.email
                           /\ r.locked_until # NULL

\* ------------------------------------------------------------------ C25
\* C25: request_code stores the record before it calls the mailer: every
\* message handed to the mailer is for a record whose insert was made
\* before, and a request whose record creation fails ends without a stored
\* record and without a message.
C25_StoredBeforeSent ==
  [][/\ \A m \in outbox' : m.stored
     /\ \A p \in Procs, c \in CodeValues :
          IssueCreate(p, c, FALSE) =>
            /\ codes' = codes
            /\ pc'[p] = "idle"
            /\ \A m \in outbox' : ~(m.worker = p /\ m.request = served[p])
  ]_vars

\* C25 witness: one request has handed its stored code to the mailer and
\* another request has ended with a failed creation
C25_SentAndFailed ==
  /\ \E m \in outbox : \E r \in codes : r.id = m.id /\ r.code = m.code
  /\ \E p \in Procs : presp[p].reason = "create_failed" /\ pc[p] = "idle"

\* ------------------------------------------------------------------ C26
\* C26: a wrong-code verify that penalises a record whose stored attempts
\* are at or above max_attempts leaves its locked_until at now + lock
\* duration, and the locked_until of a stored record never moves earlier.
C26_LockOnlyMovesLater ==
  [][\A r \in codes, q \in codes' :
       q.id = r.id =>
         /\ (penalties'[r.id] > penalties[r.id]
               /\ r.attempts >= OrDefault(r.max_attempts))
              => q.locked_until = now + LOGIN_CODE_LOCK_MINUTES
         /\ r.locked_until # NULL
              => q.locked_until # NULL /\ q.locked_until >= r.locked_until
  ]_vars

\* ------------------------------------------------------------------ C27
\* C27: with a lock duration not shorter than the ttl, a record that has
\* been locked is never accepted afterwards.
C27_LockedNeverAccepted ==
  [][LOGIN_CODE_LOCK_MINUTES >= LOGIN_CODE_EXPIRE_MINUTES =>
       \A e \in RawEmails, c \in CodeValues :
         Verify(e, c) /\ resp'.reason = "accepted" =>
           \A r \in codes : r.id = resp'.target => r.locked_until = NULL
  ]_vars

\* ------------------------------------------------------------------ C28
\* the sum of change_amount over the first n StockLog rows
RECURSIVE PSumChanges(_, _)
PSumChanges(logs, n) ==
  IF n = 0 THEN 0 ELSE PSumChanges(logs, n - 1) + logs[n].change_amount

\* C28: once every adjust_stock call has returned, the stored quantity is
\* the initial quantity plus the sum of change_amount over the StockLog
\* rows, and each row's resulting_quantity is the initial quantity plus the
\* changes logged up to that row.
C28_NoAdjustmentLost ==
  (\A p \in Procs : spc[p] = "idle") =>
    /\ quantity = InitialQuantity + PSumChanges(stockLogs, Len(stockLogs))
    /\ \A i \in DOMAIN stockLogs :
         stockLogs[i].resulting_quantity
           = InitialQuantity + PSumChanges(stockLogs, i)

\* ------------------------------------------------------------------ C29
\* the low_stock rows one call created for one user (NoUser: the broadcast)
PLowStockRows(call, user) ==
  {n \in notifs : n.call = call /\ n.user = user /\ n.type = "low_stock"}

\* C29: an adjust_stock call that has returned and left the quantity at or
\* below the threshold has created exactly one low_stock notification for
\* each admin user and exactly one broadcast; a call that left it above the
\* threshold has created none.
C29_OneLowStockNotification ==
  \A i \in DOMAIN stockLogs :
    LET l == stockLogs[i]
    IN (\A p \in Procs : spc[p] = "idle" \/ scall[p] # l.call) =>
         IF l.resulting_quantity <= LowStockThreshold
         THEN /\ \A u \in users :
                   u.role = "admin" =>
                     Cardinality(PLowStockRows(l.call, u.id)) = 1
              /\ Cardinality(PLowStockRows(l.call, NoUser)) = 1
         ELSE \A n \in notifs : n.call # l.call

\* ------------------------------------------------------------------ C30
\* what holds of an ollama_generate call at every moment
PCallInOrder ==
  /\ Len(oLog) <= OLLAMA_MAX_RETRIES
  /\ oResult.kind \in {"none", "returned", "raised"}
  /\ \A i \in DOMAIN oLog : i < Len(oLog) => oLog[i] \in OllamaFailures
  /\ oResult.kind = "none" =>
       /\ \A i \in DOMAIN oLog : oLog[i] \in OllamaFailures
       /\ Len(oLog) < OLLAMA_MAX_RETRIES
  /\ oResult.kind = "returned" =>
       /\ oLog # <<>>
       /\ oLog[Len(oLog)] \in OllamaSuccesses
       /\ oResult.value # "None"
  /\ oResult.kind = "raised" =>
       /\ Len(oLog) = OLLAMA_MAX_RETRIES
       /\ oLog[Len(oLog)] \in OllamaFailures
       /\ oResult.value = oLog[Len(oLog)]

====
